---- MODULE Spec2Model ----
(***************************************************************************)
(* Canvas Grabber: the pagination fetcher (get_all), the filename          *)
(* sanitizer (sanitize), the page-body scraper (find_file_ids_in_html),    *)
(* the selection parser (parse_choices), the downloader (download_to) and  *)
(* the per-module loop of main, modelled from src/canvas_grabber.py.       *)
(*                                                                         *)
(* A text is a sequence of one-character strings.  The token "^A" stands   *)
(* for one control character of the range 0x00-0x1F.                       *)
(***************************************************************************)
EXTENDS Integers, Sequences, FiniteSets, TLC

VARIABLES
    \* ---- sanitize ----
    name,          \* the argument of sanitize
    subbed,        \* the result of re.sub(_ILLEGAL, "_", name)
    sanitized,     \* the value sanitize returns
    spc            \* "idle" | "call" | "subbed" | "done"

sanVars == <<name, subbed, sanitized, spc>>

VARIABLES
    \* ---- find_file_ids_in_html ----
    html,          \* the argument of find_file_ids_in_html
    ids,           \* the set being built
    fpc            \* "idle" | "first" | "second" | "done"

scrVars == <<html, ids, fpc>>

VARIABLES
    \* ---- parse_choices ----
    raw,           \* the selection string
    maxnum,        \* the number of modules
    parts,         \* the parts of raw.split(",") not yet visited
    nums,          \* the list being built
    seen,          \* the numbers already in nums
    ppc            \* "idle" | "call" | "loop" | "done" | "raised"

parVars == <<raw, maxnum, parts, nums, seen, ppc>>

VARIABLES
    \* ---- get_all ----
    pages,         \* the server: page number -> [kind, next]
    url,           \* the URL to request next (a page number, 0 for None)
    params,        \* the query parameters of the next request
    results,       \* the list being built
    reqlog,        \* the requests issued so far: <<url, params>>
    gpc            \* "idle" | "loop" | "returned" | "raised"

gaVars == <<pages, url, params, results, reqlog, gpc>>

VARIABLES
    \* ---- main: the loop over the selected modules ----
    choices,           \* the selected module numbers not yet visited
    choice,            \* the module being processed (0 before the first)
    items,             \* the items of the module
    idx,               \* the position of the item loops B and C
    file_ids,          \* the identifiers harvested so far
    locked,            \* the positions of the items whose fetch returned 403
    queue,             \* the rest of sorted(file_ids)
    lookups,           \* the identifiers looked up in this module, in order
    dir,               \* mod_dir: target name -> byte length, -1 if absent
    downloaded,
    skipped,
    grand_downloaded,
    grand_skipped,
    meta,              \* fr.json() of the identifier being processed
    last,              \* what the last fetch or file-loop iteration did
    uncaught,          \* the exception that ended the run, "none" if none
    mpc                \* "idle" | "module" | "pages" | "assignments" |
                       \* "harvested" | "files" | "resolved" | "done" | "crashed"

mainVars == <<choices, choice, items, idx, file_ids, locked, queue, lookups, dir,
              downloaded, skipped, grand_downloaded, grand_skipped, meta, last,
              uncaught, mpc>>

VARIABLES
    \* ---- the scripts from start to exit ----
    script,            \* which script runs
    token,             \* TRUE if a credential was given
    nmod,              \* the number of modules the course shows
    selection,         \* the module selection typed or passed
    todo,              \* the selected (or listed) modules not yet visited
    listing_error,     \* the listing that failed in this run, "none" if none
    cause,             \* why the process ended, "none" while it runs
    exit_code,         \* the exit code, -1 while the process runs
    prev,              \* the cause and exit code of the run before this one
    xpc                \* "idle" | "start" | "courses" | "course" | "modules" |
                       \* "select" | "items" | "files" | "end" | "exited"

startVars == <<script, token, nmod, selection, todo, listing_error, cause, exit_code,
               prev, xpc>>

VARIABLES
    \* ---- download_to(session, url, target_path), step by step ----
    before,            \* the file at target_path before the call
    target_file,       \* the file at target_path now
    resp1,             \* the status of resp, "none" before the first request
    retry_after,       \* the Retry-After header of a 429 resp
    resp2,             \* the status of r2, "none" if there was no second request
    nreq,              \* the requests issued by this call
    remaining,         \* the chunks the response still delivers
    dexc,              \* the exception the call raised, "none" if none
    dpc                \* "idle" | "call" | "first" | "slept" | "second" |
                       \* "checked" | "length" | "stream" | "returned" | "raised"

dlVars == <<before, target_file, resp1, retry_after, resp2, nreq, remaining, dexc, dpc>>

VARIABLES
    \* ---- the file loop of one module, run twice over the same remote ----
    remote,            \* file identifier -> the metadata Canvas holds for it
    mdir,              \* mod_dir: target name -> the file there
    run,               \* 1 in the first run, 2 in the second
    mqueue,            \* the rest of sorted(file_ids) in this run
    report,            \* file identifier -> what this run did with it
    report1,           \* the report of the first run
    snapshot,          \* mod_dir as the first run left it
    mirpc              \* "idle" | "files" | "crashed"

mirVars == <<remote, mdir, run, mqueue, report, report1, snapshot, mirpc>>

vars == <<sanVars, scrVars, parVars, gaVars, mainVars, startVars, dlVars, mirVars>>

\* the variables each component leaves alone
sanRest == <<scrVars, parVars, gaVars, mainVars, startVars, dlVars, mirVars>>
scrRest == <<sanVars, parVars, gaVars, mainVars, startVars, dlVars, mirVars>>
parRest == <<sanVars, scrVars, gaVars, mainVars, startVars, dlVars, mirVars>>
gaRest == <<sanVars, scrVars, parVars, mainVars, startVars, dlVars, mirVars>>
mainRest == <<sanVars, scrVars, parVars, gaVars, startVars, dlVars, mirVars>>
dlRest == <<sanVars, scrVars, parVars, gaVars, mainVars, startVars, mirVars>>
mirRest == <<sanVars, scrVars, parVars, gaVars, mainVars, startVars, dlVars>>

\* ------------------------------------------------------------------ bounds
NameLen == 4       \* longest enumerated argument of sanitize
HtmlChunks == 4    \* most chunks of an enumerated page body
RawLen == 4        \* longest enumerated selection string
MaxNum == 3        \* largest enumerated number of modules
MaxPages == 3      \* most pages of an enumerated collection
MaxReq == 4        \* requests after which a get_all run is cut off
MaxModules == 2    \* most modules of the enumerated course
MaxItems == 3      \* most items of an enumerated module
MaxSize == 1       \* largest enumerated byte length
MaxBody == 2       \* largest reported size of a file of the mirrored module

\* ----------------------------------------------------------------- helpers
Strs(A, n) == UNION {[1..k -> A] : k \in 0..n}

Range(s) == {s[i] : i \in 1..Len(s)}

RECURSIVE Flatten(_)
Flatten(ss) == IF ss = <<>> THEN <<>> ELSE Head(ss) \o Flatten(Tail(ss))

\* ---------------------------------------------------------------- sanitize
\* _ILLEGAL = r'[<>:"/\\|?*\x00-\x1F]'
ILLEGAL == {"<", ">", ":", "\"", "/", "\\", "|", "?", "*", "^A"}

\* the characters str.strip(" .") removes
STRIPPED == {" ", "."}

\* re.sub(_ILLEGAL, "_", name): every match replaced, nothing else touched
ReSub(s) == [i \in 1..Len(s) |-> IF s[i] \in ILLEGAL THEN "_" ELSE s[i]]

RECURSIVE LStrip(_)
LStrip(s) ==
    IF s # <<>> /\ Head(s) \in STRIPPED THEN LStrip(Tail(s)) ELSE s

RECURSIVE RStrip(_)
RStrip(s) ==
    IF s # <<>> /\ s[Len(s)] \in STRIPPED THEN RStrip(SubSeq(s, 1, Len(s) - 1)) ELSE s

\* a sanitizer that trims the end of the name only
StripTrailingOnly(s) == RStrip(s)

\* str.strip(" ."): removes the characters from both ends
StrStrip(s) == LStrip(RStrip(s))

sanitize(s) == StrStrip(ReSub(s))

SanAlphabet == {"a", "_", ":", "/", " ", ".", "^A"}

WeekExample ==
    <<"W", "e", "e", "k", " ", "1", ":", " ", "I", "n", "t", "r", "o", "/",
      "N", "o", "t", "e", "s", ".", " ">>

WeekExpected ==
    <<"W", "e", "e", "k", " ", "1", "_", " ", "I", "n", "t", "r", "o", "_",
      "N", "o", "t", "e", "s">>

SanIdle ==
    /\ name = <<>>
    /\ subbed = <<>>
    /\ sanitized = <<>>
    /\ spc = "idle"

ScrIdle ==
    /\ html = <<>>
    /\ ids = {}
    /\ fpc = "idle"

ParIdle ==
    /\ raw = <<>>
    /\ maxnum = 0
    /\ parts = <<>>
    /\ nums = <<>>
    /\ seen = {}
    /\ ppc = "idle"

\* the record of a file-loop iteration that has not happened
NoLast ==
    [fid |-> 0, status |-> "none", reqs |-> 0, opened |-> FALSE, exc |-> "none",
     outcome |-> "none"]

\* no identifier is being processed
NoMeta == [display_name |-> <<>>, filename |-> <<>>, size |-> 0, url |-> FALSE]

MainIdle ==
    /\ choices = <<>>
    /\ choice = 0
    /\ items = <<>>
    /\ idx = 0
    /\ file_ids = {}
    /\ locked = {}
    /\ queue = <<>>
    /\ lookups = <<>>
    /\ dir = <<>>
    /\ downloaded = 0
    /\ skipped = 0
    /\ grand_downloaded = 0
    /\ grand_skipped = 0
    /\ meta = NoMeta
    /\ last = NoLast
    /\ uncaught = "none"
    /\ mpc = "idle"

GaIdle ==
    /\ pages = <<>>
    /\ url = 0
    /\ params = "none"
    /\ results = <<>>
    /\ reqlog = <<>>
    /\ gpc = "idle"

\* no file at the path
Absent == [exists |-> FALSE, bytes |-> <<>>]

DlIdle ==
    /\ before = Absent
    /\ target_file = Absent
    /\ resp1 = "none"
    /\ retry_after = "none"
    /\ resp2 = "none"
    /\ nreq = 0
    /\ remaining = 0
    /\ dexc = "none"
    /\ dpc = "idle"

MirIdle ==
    /\ remote = <<>>
    /\ mdir = <<>>
    /\ run = 0
    /\ mqueue = <<>>
    /\ report = <<>>
    /\ report1 = <<>>
    /\ snapshot = <<>>
    /\ mirpc = "idle"

\* no earlier run
NoPrev == [cause |-> "none", code |-> -1]

StartIdle ==
    /\ script = "none"
    /\ token = FALSE
    /\ nmod = 0
    /\ selection = <<>>
    /\ todo = 0
    /\ listing_error = "none"
    /\ cause = "none"
    /\ exit_code = -1
    /\ prev = NoPrev
    /\ xpc = "idle"

InitSanitize ==
    /\ name \in Strs(SanAlphabet, NameLen) \cup {WeekExample}
    /\ subbed = <<>>
    /\ sanitized = <<>>
    /\ spc = "call"
    /\ ScrIdle /\ ParIdle /\ GaIdle /\ MainIdle /\ StartIdle /\ DlIdle /\ MirIdle

SanitizeSub ==
    /\ spc = "call"
    /\ subbed' = ReSub(name)
    /\ spc' = "subbed"
    /\ UNCHANGED <<name, sanitized, sanRest>>

SanitizeStrip ==
    /\ spc = "subbed"
    /\ sanitized' = StrStrip(subbed)
    /\ spc' = "done"
    /\ UNCHANGED <<name, subbed, sanRest>>

NextSanitize == SanitizeSub \/ SanitizeStrip

SpecSanitize == InitSanitize /\ [][NextSanitize]_vars

\* ------------------------------------------------------------ C8 (sanitize)
\* the name with every illegal character replaced by one underscore
Replaced(s) == [i \in 1..Len(s) |-> IF s[i] \in ILLEGAL THEN "_" ELSE s[i]]

\* the last position of s that holds neither a dot nor a space (0 if none)
LastKept(s) ==
    LET K == {i \in 1..Len(s) : s[i] \notin STRIPPED}
    IN  IF K = {} THEN 0 ELSE CHOOSE i \in K : \A j \in K : j <= i

\* the first position of s that holds neither a dot nor a space (Len+1 if none)
FirstKept(s) ==
    LET K == {i \in 1..Len(s) : s[i] \notin STRIPPED}
    IN  IF K = {} THEN Len(s) + 1 ELSE CHOOSE i \in K : \A j \in K : i <= j

\* C8 as stated: illegal characters become underscores, trailing dots and
\* spaces are removed, and every other character, leading ones included, is
\* kept in place.
C8_Original ==
    spc = "done" => sanitized = SubSeq(Replaced(name), 1, LastKept(name))

\* C8 amended: illegal characters become underscores and the dots and spaces
\* at both ends of the name are removed; every character between the first
\* and the last character that is neither a dot nor a space is kept in place.
C8_Amended ==
    spc = "done" =>
        /\ sanitized = SubSeq(Replaced(name), FirstKept(name), LastKept(name))
        /\ name = WeekExample => sanitized = WeekExpected

\* sanitize has returned for a name that starts and ends with a dot or a
\* space and holds an illegal character in between
C8_Witness ==
    /\ spc = "done"
    /\ Len(name) >= 3
    /\ name[1] \in STRIPPED
    /\ name[Len(name)] \in STRIPPED
    /\ \E i \in 2..(Len(name) - 1) : name[i] \in ILLEGAL
    /\ Len(sanitized) < Len(name)

\* ----------------------------------------------------------- C23 (sanitize)
\* x consists only of dots and spaces (or is empty)
OnlyStripped(s) == \A i \in 1..Len(s) : s[i] \in STRIPPED

\* C23: sanitize applied to its own output returns it unchanged; the output
\* holds no illegal character and neither starts nor ends with a dot or a
\* space; it is empty exactly when the name holds only dots and spaces.
C23_Idempotent ==
    spc = "done" =>
        /\ sanitize(sanitized) = sanitized
        /\ \A i \in 1..Len(sanitized) : sanitized[i] \notin ILLEGAL
        /\ sanitized # <<>> =>
              sanitized[1] \notin STRIPPED /\ sanitized[Len(sanitized)] \notin STRIPPED
        /\ sanitized = <<>> <=> OnlyStripped(name)

\* sanitize has returned for a name it had to change at both ends and inside
C23_Witness ==
    /\ spc = "done"
    /\ name = <<".", "/", "a", " ">>
    /\ sanitized = <<"_", "a">>

\* ----------------------------------------------------- find_file_ids_in_html
DIGITS == {"0", "1", "2", "3", "4", "5", "6", "7", "8", "9"}

DigitVal(c) ==
    CASE c = "0" -> 0 [] c = "1" -> 1 [] c = "2" -> 2 [] c = "3" -> 3
      [] c = "4" -> 4 [] c = "5" -> 5 [] c = "6" -> 6 [] c = "7" -> 7
      [] c = "8" -> 8 [] c = "9" -> 9

\* int() of a non-empty run of decimal digits
RECURSIVE IntOfDigits(_)
IntOfDigits(ds) ==
    IF ds = <<>> THEN 0
    ELSE 10 * IntOfDigits(SubSeq(ds, 1, Len(ds) - 1)) + DigitVal(ds[Len(ds)])

\* the literal part of r"/files/(\d+)"
PAT_FILES == <<"/", "f", "i", "l", "e", "s", "/">>

\* a second pattern without the "/files/" segment
PAT_API_ONLY == <<"/", "a", "p", "i", "/", "v", "1">>

\* the literal part of r"/api/v1/files/(\d+)"
PAT_API_FILES == <<"/", "a", "p", "i", "/", "v", "1">> \o PAT_FILES

\* lit occurs in s at position i
LitAt(lit, s, i) ==
    /\ i + Len(lit) - 1 <= Len(s)
    /\ SubSeq(s, i, i + Len(lit) - 1) = lit

\* a capture that stops after its first digit
FirstDigitOnly(s, i) == i

\* (\d+) is greedy: the last position of the digit run that starts at i
RECURSIVE DigitRunEnd(_, _)
DigitRunEnd(s, i) ==
    IF i + 1 <= Len(s) /\ s[i + 1] \in DIGITS THEN DigitRunEnd(s, i + 1) ELSE i

\* re.finditer(lit + r"(\d+)", s) from position i on, left to right and
\* without overlap; the set of int(m.group(1)) over the matches m
RECURSIVE FindIter(_, _, _)
FindIter(lit, s, i) ==
    IF i > Len(s) THEN {}
    ELSE IF LitAt(lit, s, i) /\ i + Len(lit) <= Len(s) /\ s[i + Len(lit)] \in DIGITS
         THEN LET b == i + Len(lit)
                  e == DigitRunEnd(s, b)
              IN  {IntOfDigits(SubSeq(s, b, e))} \cup FindIter(lit, s, e + 1)
         ELSE FindIter(lit, s, i + 1)

find_file_ids_in_html(s) == FindIter(PAT_FILES, s, 1) \cup FindIter(PAT_API_FILES, s, 1)

HtmlChunkSet ==
    { PAT_FILES,
      <<"/", "a", "p", "i", "/", "v", "1">>,
      <<"/", "f", "i", "l", "e", "s", "t", "o", "r", "e", "/">>,
      <<"1">>, <<"0">>, <<"2">>, <<"x">> }

\* "/filestore/123"
FilestoreExample ==
    <<"/", "f", "i", "l", "e", "s", "t", "o", "r", "e", "/", "1", "2", "3">>

\* "/files/502 /api/v1/files/503"
PageExample ==
    PAT_FILES \o <<"5", "0", "2", " ">> \o PAT_API_FILES \o <<"5", "0", "3">>

\* "/files/12/download /api/v1/files/12 /filestore/3"
DupExample ==
    PAT_FILES \o <<"1", "2", "/", "d", "o", "w", "n", "l", "o", "a", "d", " ">>
        \o PAT_API_FILES \o <<"1", "2", " ">>
        \o <<"/", "f", "i", "l", "e", "s", "t", "o", "r", "e", "/", "3">>

InitScrape ==
    /\ html \in {Flatten(cs) : cs \in Strs(HtmlChunkSet, HtmlChunks)}
                \cup {FilestoreExample, PageExample, DupExample}
    /\ ids = {}
    /\ fpc = "first"
    /\ SanIdle /\ ParIdle /\ GaIdle /\ MainIdle /\ StartIdle /\ DlIdle /\ MirIdle

\* the loop over re.finditer(r"/files/(\d+)", html)
ScanFiles ==
    /\ fpc = "first"
    /\ ids' = ids \cup FindIter(PAT_FILES, html, 1)
    /\ fpc' = "second"
    /\ UNCHANGED <<html, scrRest>>

\* the loop over re.finditer(r"/api/v1/files/(\d+)", html), then return ids
ScanApiFiles ==
    /\ fpc = "second"
    /\ ids' = ids \cup FindIter(PAT_API_FILES, html, 1)
    /\ fpc' = "done"
    /\ UNCHANGED <<html, scrRest>>

NextScrape == ScanFiles \/ ScanApiFiles

SpecScrape == InitScrape /\ [][NextScrape]_vars

\* ------------------------------------------- C7 (find_file_ids_in_html)
\* the positions of s at which "/files/" is immediately followed by a digit
RefStarts(s) ==
    {p \in 1..Len(s) :
        /\ p + 7 <= Len(s)
        /\ \A k \in 1..7 : s[p + k - 1] = PAT_FILES[k]
        /\ s[p + 7] \in DIGITS}

\* the maximal digit run that starts at position b of s
MaxRun(s, b) ==
    LET e == CHOOSE e \in b..Len(s) :
                 /\ \A k \in b..e : s[k] \in DIGITS
                 /\ e = Len(s) \/ s[e + 1] \notin DIGITS
    IN  SubSeq(s, b, e)

\* the integers referenced by s
Referenced(s) == {IntOfDigits(MaxRun(s, p + 7)) : p \in RefStarts(s)}

\* C7: find_file_ids_in_html returns exactly the set of the integers spelled
\* by a maximal digit run that immediately follows "/files/" in the text
\* (repetitions collapse, "/filestore/123" contributes nothing).
C7_ScrapeExact ==
    fpc = "done" =>
        /\ ids = Referenced(html)
        /\ html = FilestoreExample => ids = {}
        /\ html = PageExample => ids = {502, 503}

\* the scraper has returned the one identifier of a text that references it
\* twice, with a run of two digits, next to a "/filestore/" path
C7_Witness ==
    /\ fpc = "done"
    /\ html = DupExample
    /\ Cardinality(RefStarts(html)) = 2
    /\ ids = {12}

\* ------------------------------------------ C24 (find_file_ids_in_html)
\* C24: the scan for "/api/v1/files/<digits>" adds no identifier to the
\* set the scan for "/files/<digits>" produced: the returned set is the
\* set of the first scan alone.
C24_SecondScanAddsNothing == [][fpc = "second" /\ fpc' = "done" => ids' = ids]_vars

\* the scraper has returned for a text with an "/api/v1/files/<digits>"
\* reference
C24_Witness ==
    /\ fpc = "done"
    /\ html = PageExample
    /\ FindIter(PAT_API_FILES, html, 1) = {503}
    /\ ids = {502, 503}

\* ------------------------------------------------------------ parse_choices
\* str.split(sep): the pieces between the separators, empty pieces included
RECURSIVE Split(_, _)
Split(s, sep) ==
    IF \A i \in 1..Len(s) : s[i] # sep THEN <<s>>
    ELSE LET k == CHOOSE i \in 1..Len(s) :
                      s[i] = sep /\ \A j \in 1..(i - 1) : s[j] # sep
         IN  <<SubSeq(s, 1, k - 1)>> \o Split(SubSeq(s, k + 1, Len(s)), sep)

\* str.split("-", 1) of a part that holds "-": <<start, end>>
SplitOnce(s, sep) ==
    LET k == CHOOSE i \in 1..Len(s) : s[i] = sep /\ \A j \in 1..(i - 1) : s[j] # sep
    IN  <<SubSeq(s, 1, k - 1), SubSeq(s, k + 1, Len(s))>>

RECURSIVE LStripWs(_)
LStripWs(s) == IF s # <<>> /\ Head(s) = " " THEN LStripWs(Tail(s)) ELSE s

RECURSIVE RStripWs(_)
RStripWs(s) ==
    IF s # <<>> /\ s[Len(s)] = " " THEN RStripWs(SubSeq(s, 1, Len(s) - 1)) ELSE s

\* str.strip()
StripWs(s) == LStripWs(RStripWs(s))

\* int(s) of a str: surrounding whitespace is ignored, one sign is allowed,
\* then one digit or more; anything else raises ValueError
PyInt(s) ==
    LET t == StripWs(s)
        signed == t # <<>> /\ Head(t) \in {"+", "-"}
        d == IF signed THEN Tail(t) ELSE t
    IN  IF d # <<>> /\ \A i \in 1..Len(d) : d[i] \in DIGITS
        THEN [exc |-> "none",
              val |-> IF signed /\ Head(t) = "-" THEN 0 - IntOfDigits(d)
                      ELSE IntOfDigits(d)]
        ELSE [exc |-> "ValueError", val |-> 0]

\* the except clauses of parse_choices
Caught(exc) == exc = "ValueError"

\* a parser that appends every valid number, seen or not
AppendAlways(st, n, m) ==
    IF 1 <= n /\ n <= m
    THEN [nums |-> Append(st.nums, n), seen |-> st.seen \cup {n}]
    ELSE st

\* if 1 <= n <= maxnum and n not in seen: seen.add(n); nums.append(n)
AppendIfNew(st, n, m) ==
    IF 1 <= n /\ n <= m /\ n \notin st.seen
    THEN [nums |-> Append(st.nums, n), seen |-> st.seen \cup {n}]
    ELSE st

\* a parser that leaves a reversed range as it is
NoSwap(s, e) == <<s, e>>

\* if s > e: s, e = e, s
OrderEnds(s, e) == IF s > e THEN <<e, s>> ELSE <<s, e>>

\* for n in range(s, e + 1): ...   The numbers below 1 and above maxnum fail
\* the test of the body, so the loop is run over the rest of the range.
RECURSIVE ForRange(_, _, _, _)
ForRange(st, n, e, m) ==
    IF n > e \/ n > m THEN st
    ELSE IF n < 1 THEN ForRange(st, 1, e, m)
    ELSE ForRange(AppendIfNew(st, n, m), n + 1, e, m)

\* the body of the loop for a part that holds "-"
VisitRangePart(st, part, m) ==
    LET se == SplitOnce(part, "-")
        s == PyInt(se[1])
        e == PyInt(se[2])
    IN  IF s.exc # "none" THEN [st |-> st, exc |-> s.exc]
        ELSE IF e.exc # "none" THEN [st |-> st, exc |-> e.exc]
        ELSE LET o == OrderEnds(s.val, e.val)
             IN  [st |-> ForRange(st, o[1], o[2], m), exc |-> "none"]

\* the body of the loop for a part without "-"
VisitSinglePart(st, part, m) ==
    LET n == PyInt(part)
    IN  IF n.exc # "none" THEN [st |-> st, exc |-> n.exc]
        ELSE [st |-> AppendIfNew(st, n.val, m), exc |-> "none"]

\* one iteration of `for part in raw.split(",")`
VisitPart(st, rawpart, m) ==
    LET part == StripWs(rawpart)
    IN  IF part = <<>> THEN [st |-> st, exc |-> "none"]
        ELSE IF "-" \in Range(part) THEN VisitRangePart(st, part, m)
        ELSE VisitSinglePart(st, part, m)

RECURSIVE VisitAll(_, _, _)
VisitAll(st, ps, m) ==
    IF ps = <<>> THEN st
    ELSE LET r == VisitPart(st, Head(ps), m)
         IN  IF r.exc # "none" /\ ~Caught(r.exc) THEN st
             ELSE VisitAll(r.st, Tail(ps), m)

\* parse_choices as a function of its arguments
parse_choices(r, m) == VisitAll([nums |-> <<>>, seen |-> {}], Split(r, ","), m).nums

RawAlphabet == {"1", "2", ",", "-", " ", "a"}

\* "abc,8,0,12,9-7"
MixedExample ==
    <<"a", "b", "c", ",", "8", ",", "0", ",", "1", "2", ",", "9", "-", "7">>

\* "2,1-3,2"
OverlapExample == <<"2", ",", "1", "-", "3", ",", "2">>

\* "8,9,6", "5-7", "7-5", "abc" and the two above
RawExamples ==
    { MixedExample, OverlapExample,
      <<"8", ",", "9", ",", "6">>,
      <<"5", "-", "7">>,
      <<"7", "-", "5">>,
      <<"a", "b", "c">> }

ExampleMaxNum == 9

InitParse ==
    /\ \/ raw \in Strs(RawAlphabet, RawLen) /\ maxnum \in 0..MaxNum
       \/ raw \in RawExamples /\ maxnum = ExampleMaxNum
    /\ parts = <<>>
    /\ nums = <<>>
    /\ seen = {}
    /\ ppc = "call"
    /\ SanIdle /\ ScrIdle /\ GaIdle /\ MainIdle /\ StartIdle /\ DlIdle /\ MirIdle

\* nums = []; seen = set(); raw.split(",")
ParseSplit ==
    /\ ppc = "call"
    /\ parts' = Split(raw, ",")
    /\ nums' = <<>>
    /\ seen' = {}
    /\ ppc' = "loop"
    /\ UNCHANGED <<raw, maxnum, parRest>>

VisitStep(part) ==
    LET r == VisitPart([nums |-> nums, seen |-> seen], part, maxnum)
    IN  IF r.exc # "none" /\ ~Caught(r.exc)
        THEN /\ ppc' = "raised"
             /\ UNCHANGED <<parts, nums, seen>>
        ELSE /\ nums' = r.st.nums
             /\ seen' = r.st.seen
             /\ parts' = Tail(parts)
             /\ ppc' = "loop"

\* an iteration whose part is empty once stripped: continue
VisitEmpty ==
    /\ ppc = "loop" /\ parts # <<>>
    /\ StripWs(Head(parts)) = <<>>
    /\ VisitStep(Head(parts))
    /\ UNCHANGED <<raw, maxnum, parRest>>

\* an iteration whose part holds "-"
VisitRange ==
    /\ ppc = "loop" /\ parts # <<>>
    /\ "-" \in Range(StripWs(Head(parts)))
    /\ VisitStep(Head(parts))
    /\ UNCHANGED <<raw, maxnum, parRest>>

\* an iteration whose part holds no "-"
VisitSingle ==
    /\ ppc = "loop" /\ parts # <<>>
    /\ StripWs(Head(parts)) # <<>>
    /\ "-" \notin Range(StripWs(Head(parts)))
    /\ VisitStep(Head(parts))
    /\ UNCHANGED <<raw, maxnum, parRest>>

\* return nums
ParseReturn ==
    /\ ppc = "loop" /\ parts = <<>>
    /\ ppc' = "done"
    /\ UNCHANGED <<raw, maxnum, parts, nums, seen, parRest>>

NextParse == ParseSplit \/ VisitEmpty \/ VisitRange \/ VisitSingle \/ ParseReturn

SpecParse == InitParse /\ [][NextParse]_vars

\* ------------------------------------------------------ C5, C6 (parse_choices)
\* the numbers of 1..m that one part of the selection string names
Span(rawpart, m) ==
    LET part == StripWs(rawpart)
    IN  IF part = <<>> THEN {}
        ELSE IF "-" \in Range(part)
        THEN LET se == SplitOnce(part, "-")
                 a == PyInt(se[1])
                 b == PyInt(se[2])
             IN  IF a.exc # "none" \/ b.exc # "none" THEN {}
                 ELSE {n \in 1..m : (a.val <= n /\ n <= b.val) \/ (b.val <= n /\ n <= a.val)}
        ELSE LET a == PyInt(part)
             IN  IF a.exc # "none" THEN {} ELSE {n \in 1..m : n = a.val}

\* the index of the first part of toks that names n
FirstPart(toks, n, m) ==
    CHOOSE k \in 1..Len(toks) :
        /\ n \in Span(toks[k], m)
        /\ \A j \in 1..(k - 1) : n \notin Span(toks[j], m)

\* C5: parse_choices returns a list without repetition whose elements lie in
\* 1..maxnum, ordered by the first part of the string that names them, the
\* numbers of one range in ascending order.
C5_OrderedUnique ==
    ppc = "done" =>
        LET toks == Split(raw, ",")
        IN  /\ \A i, j \in 1..Len(nums) : i # j => nums[i] # nums[j]
            /\ \A i \in 1..Len(nums) : 1 <= nums[i] /\ nums[i] <= maxnum
            /\ Range(nums) = UNION {Span(toks[k], maxnum) : k \in 1..Len(toks)}
            /\ \A i, j \in 1..Len(nums) :
                   i < j =>
                       LET fi == FirstPart(toks, nums[i], maxnum)
                           fj == FirstPart(toks, nums[j], maxnum)
                       IN  fi < fj \/ (fi = fj /\ nums[i] < nums[j])
            /\ (raw = <<"8", ",", "9", ",", "6">> /\ maxnum >= 9) => nums = <<8, 9, 6>>
            /\ (raw = <<"5", "-", "7">> /\ maxnum >= 9) => nums = <<5, 6, 7>>

\* parse_choices has returned for "2,1-3,2": the range gives 1 and 3 around
\* the 2 already taken, and the last 2 adds nothing
C5_Witness ==
    /\ ppc = "done"
    /\ raw = OverlapExample
    /\ nums = <<2, 1, 3>>

\* the elements of the finite set S of integers in ascending order
RECURSIVE Ascending(_)
Ascending(S) ==
    IF S = {} THEN <<>>
    ELSE LET lo == CHOOSE x \in S : \A y \in S : x <= y
         IN  <<lo>> \o Ascending(S \ {lo})

IsDigitRun(t) == t # <<>> /\ \A i \in 1..Len(t) : t[i] \in DIGITS

\* a part that is not numeric (it holds a character that is no digit, sign
\* or space) or that is one number outside 1..m
DroppedPart(rawpart, m) ==
    LET t == StripWs(rawpart)
    IN  \/ \E i \in 1..Len(t) : t[i] \notin (DIGITS \cup {"-", "+", " "})
        \/ IsDigitRun(t) /\ ~(1 <= IntOfDigits(t) /\ IntOfDigits(t) <= m)

RECURSIVE JoinKept(_, _)
JoinKept(toks, m) ==
    IF toks = <<>> THEN <<>>
    ELSE IF DroppedPart(Head(toks), m) THEN JoinKept(Tail(toks), m)
    ELSE LET rest == JoinKept(Tail(toks), m)
         IN  Head(toks) \o <<",">> \o rest

\* C6: parse_choices never raises; "b-a" gives what "a-b" gives; a part that
\* is non-numeric or outside 1..maxnum contributes nothing and the other
\* parts are honoured; a string of such parts only gives the empty list.
C6_Tolerant ==
    /\ ppc # "raised"
    /\ ppc = "done" =>
        LET toks == Split(raw, ",")
        IN  /\ (Len(toks) = 1 /\ "-" \in Range(raw)) =>
                   LET se == SplitOnce(raw, "-")
                   IN  (IsDigitRun(se[1]) /\ IsDigitRun(se[2])) =>
                           /\ nums = parse_choices(se[2] \o <<"-">> \o se[1], maxnum)
                           /\ nums = Ascending(
                                 {n \in 1..maxnum :
                                     \/ IntOfDigits(se[1]) <= n /\ n <= IntOfDigits(se[2])
                                     \/ IntOfDigits(se[2]) <= n /\ n <= IntOfDigits(se[1])})
            /\ nums = parse_choices(JoinKept(toks, maxnum), maxnum)
            /\ (\A k \in 1..Len(toks) : DroppedPart(toks[k], maxnum)) => nums = <<>>
            /\ (raw = <<"7", "-", "5">> /\ maxnum >= 9) => nums = <<5, 6, 7>>
            /\ raw = <<"a", "b", "c">> => nums = <<>>

\* parse_choices has returned for "abc,8,0,12,9-7": the three bad parts are
\* dropped, 8 and the reversed range are honoured
C6_Witness ==
    /\ ppc = "done"
    /\ raw = MixedExample
    /\ maxnum = ExampleMaxNum
    /\ nums = <<8, 7, 9>>

\* ------------------------------------------------------------------ get_all
PageKinds == {"list", "items", "other"}

\* the records of the body of page p: a JSON list of two records, an object
\* whose "items" is a list of one record, or an object without a list
BodyOf(p, kind) ==
    CASE kind = "list" -> [isList |-> TRUE, list |-> <<<<p, 1>>, <<p, 2>>>>, items |-> "absent"]
      [] kind = "items" -> [isList |-> FALSE, list |-> <<>>, items |-> <<<<p, 1>>>>]
      [] kind = "other" -> [isList |-> FALSE, list |-> <<>>, items |-> "absent"]

Seg(k, v) == [k |-> k, v |-> v]

\* the Link header of page p, as link.split(",") and part.split(";") cut it:
\* a sequence of parts, each a sequence of segments.  A missing header is ""
\* and splits into one part of one segment.
LinkOf(p, kind, next) ==
    LET nextPart == IF next = 0 THEN <<>>
                    ELSE <<<<Seg("href", next), Seg("rel", "next")>>>>
    IN  CASE kind = "list" ->
                 <<<<Seg("href", p), Seg("rel", "current")>>>> \o nextPart
                     \o <<<<Seg("href", 1), Seg("rel", "first")>>>>
          [] kind = "items" ->
                 nextPart \o <<<<Seg("href", p), Seg("title", "x"), Seg("rel", "last")>>>>
          [] kind = "other" ->
                 IF next = 0 THEN <<<<Seg("raw", "")>>>> ELSE nextPart

\* a fetcher that never follows a link
NoNext(link, next_url) == 0

\* rel = None; for attr in segs[1:]: if attr.startswith("rel="): rel = ...
RECURSIVE RelOf(_, _)
RelOf(attrs, rel) ==
    IF attrs = <<>> THEN rel
    ELSE RelOf(Tail(attrs), IF Head(attrs).k = "rel" THEN Head(attrs).v ELSE rel)

\* next_url = None; for part in link.split(","): ...; if rel == "next": next_url = href
RECURSIVE NextUrl(_, _)
NextUrl(link, next_url) ==
    IF link = <<>> THEN next_url
    ELSE LET segs == Head(link)
         IN  IF Len(segs) < 2 THEN NextUrl(Tail(link), next_url)
             ELSE NextUrl(Tail(link),
                          IF RelOf(Tail(segs), "none") = "next" THEN segs[1].v
                          ELSE next_url)

\* a fetcher that keeps the last page only
KeepLast(res, body) == IF body.isList THEN body.list ELSE <<>>

\* if isinstance(data, list): results.extend(data)
\* else: items = data.get("items", []); if isinstance(items, list): results.extend(items)
Extend(res, body) ==
    IF body.isList THEN res \o body.list
    ELSE IF body.items # "absent" THEN res \o body.items
    ELSE res

InitGetAll ==
    /\ \E n \in 1..MaxPages :
           pages \in [1..n -> [kind : PageKinds, next : 0..n]]
    /\ url = 1
    /\ params = "per_page"
    /\ results = <<>>
    /\ reqlog = <<>>
    /\ gpc = "loop"
    /\ SanIdle /\ ScrIdle /\ ParIdle /\ MainIdle /\ StartIdle /\ DlIdle /\ MirIdle

\* one iteration of `while url:` whose response is a success
GetPage ==
    /\ gpc = "loop" /\ url # 0
    /\ Len(reqlog) < MaxReq
    /\ reqlog' = Append(reqlog, <<url, params>>)
    /\ results' = Extend(results, BodyOf(url, pages[url].kind))
    /\ url' = NextUrl(LinkOf(url, pages[url].kind, pages[url].next), 0)
    /\ params' = "none"
    /\ UNCHANGED <<pages, gpc, gaRest>>

\* one iteration whose request fails or whose response is an error status:
\* session.get or resp.raise_for_status() raises
GetPageRaises ==
    /\ gpc = "loop" /\ url # 0
    /\ Len(reqlog) < MaxReq
    /\ reqlog' = Append(reqlog, <<url, params>>)
    /\ gpc' = "raised"
    /\ UNCHANGED <<pages, url, params, results, gaRest>>

\* url is None: return results
GetAllReturn ==
    /\ gpc = "loop" /\ url = 0
    /\ gpc' = "returned"
    /\ UNCHANGED <<pages, url, params, results, reqlog, gaRest>>

NextGetAll == GetPage \/ GetPageRaises \/ GetAllReturn

SpecGetAll == InitGetAll /\ [][NextGetAll]_vars

\* ------------------------------------------------------------- C1 (get_all)
\* page p of the chain links to page p + 1 and the last page to nothing
IsChain == \A p \in DOMAIN pages :
               pages[p].next = IF p < Len(pages) THEN p + 1 ELSE 0

\* the records of page p, in the order of its body
RecordsOf(p) ==
    CASE pages[p].kind = "list" -> <<<<p, 1>>, <<p, 2>>>>
      [] pages[p].kind = "items" -> <<<<p, 1>>>>
      [] pages[p].kind = "other" -> <<>>

RECURSIVE ConcatPages(_, _)
ConcatPages(p, n) == IF p > n THEN <<>> ELSE RecordsOf(p) \o ConcatPages(p + 1, n)

\* C1: on a chain of N pages whose responses all succeed, get_all issues
\* exactly N requests, page 1 to page N in order, and returns the records of
\* the pages concatenated in that order.
C1_Concatenation ==
    IsChain =>
        /\ Len(reqlog) <= Len(pages)
        /\ \A i \in 1..Len(reqlog) : reqlog[i][1] = i
        /\ gpc = "returned" =>
               /\ Len(reqlog) = Len(pages)
               /\ results = ConcatPages(1, Len(pages))

\* get_all has returned from a chain of three pages that all hold records
C1_Witness ==
    /\ gpc = "returned"
    /\ IsChain
    /\ Len(pages) = 3
    /\ \A p \in 1..3 : pages[p].kind # "other"
    /\ Len(results) >= 4

\* --------------------------------------------------- main: module harvesting
\* sorted(S) in descending order
RECURSIVE SortedDescending(_)
SortedDescending(S) ==
    IF S = {} THEN <<>>
    ELSE LET hi == CHOOSE x \in S : \A y \in S : x >= y
         IN  <<hi>> \o SortedDescending(S \ {hi})

\* a fetch that raises on every status but 200
RaisesOn403(st) == st # "200"

\* sorted(S) for a finite set S of integers
RECURSIVE Sorted(_)
Sorted(S) ==
    IF S = {} THEN <<>>
    ELSE LET lo == CHOOSE x \in S : \A y \in S : x <= y
         IN  <<lo>> \o Sorted(S \ {lo})

\* A module item.  content_id 0 stands for a missing or falsy content_id,
\* page_url <<>> for a missing or empty page_url.
Item(t, c, u) == [type |-> t, content_id |-> c, page_url |-> u]

ItemPool ==
    { Item("File", 501, <<>>), Item("File", 0, <<>>),
      Item("Page", 0, <<"p", "1">>), Item("Page", 0, <<>>),
      Item("Assignment", 7, <<>>),
      Item("ExternalUrl", 501, <<>>) }

\* the body of GET /courses/<id>/pages/<slug>
PageBody(slug) == IF slug = <<"p", "1">> THEN PageExample ELSE <<>>

\* the attachments of GET /courses/<id>/assignments/<aid>: the second
\* attachment carries no integer id
Attachments(aid) ==
    IF aid = 7 THEN <<[isInt |-> TRUE, id |-> 504], [isInt |-> FALSE, id |-> 0]>>
    ELSE <<>>

\* the statuses a page, assignment or file lookup can end with; "neterr" is
\* session.get raising a requests.RequestException
FetchStatus == {"200", "403", "404", "500", "neterr"}

\* resp.raise_for_status() raises, or session.get raised
Raises(st) == st \notin {"200", "403"}

ExcOf(st) == IF st = "neterr" THEN "ConnectionError" ELSE "HTTPError"

\* the record of a listing, page or assignment fetch that ended with st
FetchOf(st, what) ==
    [fid |-> 0, status |-> st, reqs |-> 0, opened |-> FALSE,
     exc |-> IF Raises(st) THEN ExcOf(st) ELSE "none", outcome |-> what]

\* the selections the enumerated runs are given at the prompt: "1" and "2,1"
Selections == { <<"1">>, <<"2", ",", "1">> }

\* a harvester whose page step replaces the set
Overwrite(S, T) == T

\* file_ids |= T
UnionIds(S, T) == S \cup T

\* loop A: for it in items: if type == "File" and content_id: file_ids.add(int(content_id))
RECURSIVE HarvestFiles(_, _)
HarvestFiles(its, S) ==
    IF its = <<>> THEN S
    ELSE HarvestFiles(Tail(its),
             IF Head(its).type = "File" /\ Head(its).content_id # 0
             THEN S \cup {Head(its).content_id} ELSE S)

\* for att in attachments: fid = att.get("id"); if isinstance(fid, int): file_ids.add(fid)
RECURSIVE AddAttachments(_, _)
AddAttachments(atts, S) ==
    IF atts = <<>> THEN S
    ELSE AddAttachments(Tail(atts),
             IF Head(atts).isInt THEN S \cup {Head(atts).id} ELSE S)

InitMain ==
    /\ choices \in {parse_choices(r, MaxModules) : r \in Selections}
    /\ choice = 0
    /\ items = <<>>
    /\ idx = 0
    /\ file_ids = {}
    /\ locked = {}
    /\ queue = <<>>
    /\ lookups = <<>>
    /\ dir = <<>>
    /\ downloaded = 0
    /\ skipped = 0
    /\ grand_downloaded = 0
    /\ grand_skipped = 0
    /\ meta = NoMeta
    /\ last = NoLast
    /\ uncaught = "none"
    /\ mpc = "module"
    /\ SanIdle /\ ScrIdle /\ ParIdle /\ GaIdle /\ StartIdle /\ DlIdle /\ MirIdle

\* for choice in choices: the next selected module
EnterModule ==
    /\ choice' = Head(choices)
    /\ choices' = Tail(choices)
    /\ UNCHANGED <<locked, queue, lookups, dir, downloaded, skipped, grand_downloaded,
                   grand_skipped, meta, mainRest>>

\* The end of one iteration.  What the iteration assigned (items, file_ids,
\* mod_dir, downloaded, skipped) is not read again before the next iteration
\* assigns it, and is dropped from the state.
EndIteration ==
    /\ items' = <<>>
    /\ idx' = 0
    /\ file_ids' = {}
    /\ locked' = {}
    /\ queue' = <<>>
    /\ lookups' = <<>>
    /\ dir' = <<>>
    /\ downloaded' = 0
    /\ skipped' = 0
    /\ meta' = NoMeta
    /\ last' = NoLast
    /\ mpc' = "module"

\* get_all of the module's items raises (resp.raise_for_status() on any error
\* status, 403 included, or session.get): nothing in main catches it
ListItemsRaises ==
    /\ mpc = "module" /\ choices # <<>>
    /\ EnterModule
    /\ \E st \in FetchStatus \ {"200"} :
           /\ last' = [FetchOf(st, "list_error") EXCEPT !.exc = ExcOf(st)]
           /\ uncaught' = ExcOf(st)
    /\ mpc' = "crashed"
    /\ UNCHANGED <<items, idx, file_ids>>

\* if not items: continue
ModuleNoItems ==
    /\ mpc = "module" /\ choices # <<>>
    /\ EnterModule
    /\ items' = <<>>
    /\ UNCHANGED <<idx, file_ids, last, uncaught, mpc>>

\* the module has items: file_ids = set(), then loop A
ModuleFileItems ==
    /\ mpc = "module" /\ choices # <<>>
    /\ EnterModule
    /\ \E its \in Strs(ItemPool, MaxItems) \ {<<>>} :
           /\ items' = its
           /\ file_ids' = HarvestFiles(its, {})
    /\ idx' = 1
    /\ mpc' = "pages"
    /\ UNCHANGED <<last, uncaught>>

\* the end of one iteration of loop B or C: the next item, or the next stage
NextItem(stage) ==
    IF idx < Len(items) THEN idx' = idx + 1 /\ mpc' = mpc
    ELSE idx' = 1 /\ mpc' = stage

harvestFrame == <<choices, choice, items, queue, lookups, dir, downloaded, skipped,
                  grand_downloaded, grand_skipped, meta, mainRest>>

\* loop B, an item that is no Page or has no slug
PageSkip ==
    /\ mpc = "pages"
    /\ items[idx].type # "Page" \/ items[idx].page_url = <<>>
    /\ NextItem("assignments")
    /\ UNCHANGED <<file_ids, locked, last, uncaught, harvestFrame>>

\* loop B, the page fetch returns 403: continue
PageLocked ==
    /\ mpc = "pages"
    /\ items[idx].type = "Page" /\ items[idx].page_url # <<>>
    /\ locked' = locked \cup {idx}
    /\ last' = FetchOf("403", "page_locked")
    /\ NextItem("assignments")
    /\ UNCHANGED <<file_ids, uncaught, harvestFrame>>

\* loop B, the page fetch fails: pr.raise_for_status() or session.get raises
PageRaises ==
    /\ mpc = "pages"
    /\ items[idx].type = "Page" /\ items[idx].page_url # <<>>
    /\ \E st \in {x \in FetchStatus : Raises(x)} :
           /\ last' = FetchOf(st, "page_error")
           /\ uncaught' = ExcOf(st)
    /\ mpc' = "crashed"
    /\ UNCHANGED <<idx, file_ids, locked, harvestFrame>>

\* loop B, the page fetch succeeds: file_ids |= find_file_ids_in_html(body)
PageScrape ==
    /\ mpc = "pages"
    /\ items[idx].type = "Page" /\ items[idx].page_url # <<>>
    /\ file_ids' = UnionIds(file_ids, find_file_ids_in_html(PageBody(items[idx].page_url)))
    /\ last' = FetchOf("200", "page_scraped")
    /\ NextItem("assignments")
    /\ UNCHANGED <<locked, uncaught, harvestFrame>>

\* loop C, an item that is no Assignment or has no content_id
AssignSkip ==
    /\ mpc = "assignments"
    /\ items[idx].type # "Assignment" \/ items[idx].content_id = 0
    /\ NextItem("harvested")
    /\ UNCHANGED <<file_ids, locked, last, uncaught, harvestFrame>>

\* loop C, the assignment fetch returns 403: continue
AssignLocked ==
    /\ mpc = "assignments"
    /\ items[idx].type = "Assignment" /\ items[idx].content_id # 0
    /\ locked' = locked \cup {idx}
    /\ last' = FetchOf("403", "assignment_locked")
    /\ NextItem("harvested")
    /\ UNCHANGED <<file_ids, uncaught, harvestFrame>>

\* loop C, the assignment fetch fails
AssignRaises ==
    /\ mpc = "assignments"
    /\ items[idx].type = "Assignment" /\ items[idx].content_id # 0
    /\ \E st \in {x \in FetchStatus : Raises(x)} :
           /\ last' = FetchOf(st, "assignment_error")
           /\ uncaught' = ExcOf(st)
    /\ mpc' = "crashed"
    /\ UNCHANGED <<idx, file_ids, locked, harvestFrame>>

\* loop C, the assignment fetch succeeds: its integer attachment ids are added
AssignAttach ==
    /\ mpc = "assignments"
    /\ items[idx].type = "Assignment" /\ items[idx].content_id # 0
    /\ file_ids' = AddAttachments(Attachments(items[idx].content_id), file_ids)
    /\ last' = FetchOf("200", "assignment_read")
    /\ NextItem("harvested")
    /\ UNCHANGED <<locked, uncaught, harvestFrame>>

\* ------------------------------------------------- main: the loop over files
\* the sizes and byte lengths of the enumerated files
Sizes == 0..MaxSize

\* the JSON of GET /files/<fid>; <<>> is a missing or empty name, size 0 a
\* missing or zero size, url FALSE a record with neither url nor download_url
Metas ==
    [display_name : {<<>>, <<"a">>, <<".", "a">>}, filename : {<<"b", "/">>},
     size : Sizes, url : BOOLEAN]

\* name = meta.get("display_name") or meta.get("filename") or f"file_{fid}"
NameOf(m, fid) ==
    IF m.display_name # <<>> THEN m.display_name
    ELSE IF m.filename # <<>> THEN m.filename
    ELSE <<"file_", ToString(fid)>>

\* target = mod_dir / sanitize(name)
TargetOf(m, fid) == sanitize(NameOf(m, fid))

Targets == {TargetOf(m, 0) : m \in Metas}

\* what mod_dir may hold when the file loop starts
InitialDirs == [Targets -> {-1} \cup Sizes]

\* a handler that catches every exception
AnyException ==
    {"HTTPError", "ConnectionError", "ChunkedEncodingError", "ValueError", "OSError"}

\* the exceptions `except requests.RequestException` catches
RequestExceptions == {"HTTPError", "ConnectionError", "ChunkedEncodingError"}

Outcome(n, o, w, e) == [reqs |-> n, opened |-> o, written |-> w, exc |-> e]

\* what follows the n-th request once it passed raise_for_status:
\* int(Content-Length) raises; or open(target_path, "wb") fails; or the file
\* is truncated and the body streamed to the end; or the stream or a write
\* fails after w bytes
StreamOutcomes(n) ==
    {Outcome(n, FALSE, 0, "ValueError"), Outcome(n, FALSE, 0, "OSError")}
        \cup {Outcome(n, TRUE, w, "none") : w \in Sizes}
        \cup {Outcome(n, TRUE, w, e) :
                 w \in Sizes \ {MaxSize}, e \in {"ChunkedEncodingError", "OSError"}}

\* the responses of a download request
Responses == {"200", "429", "500", "neterr"}

\* the Retry-After header of a 429 response
RetryAfters == {"absent", "seconds", "date"}

\* the request whose answer is resp was the n-th of the call
AfterRequest(n, resp) ==
    CASE resp = "neterr" -> {Outcome(n, FALSE, 0, "ConnectionError")}
      [] resp = "200" -> StreamOutcomes(n)
      [] OTHER -> {Outcome(n, FALSE, 0, "HTTPError")}

\* the call whose first response is f, with Retry-After header h if f is 429:
\* int() of a header that is not a decimal integer raises before the sleep
AfterFirst(f, h) ==
    IF f # "429" THEN AfterRequest(1, f)
    ELSE IF h = "date" THEN {Outcome(1, FALSE, 0, "ValueError")}
    ELSE UNION {AfterRequest(2, second) : second \in Responses}

\* download_to(session, url, target_path): every way one call can run
download_to == UNION {AfterFirst(f, h) : f \in Responses, h \in RetryAfters}

\* a downloader that skips whenever the target exists
SkipIfExists(d, t, size) == d[t] # -1

\* a downloader without the skip rule
NoSkip(d, t, size) == FALSE

\* target.exists() and size and target.stat().st_size == size
SkipRule(d, t, size) == d[t] # -1 /\ size # 0 /\ d[t] = size

\* the directory after download_to: the target is truncated and written if
\* it was opened, and nothing else is touched
DirAfter(d, t, o) == IF o.opened THEN [d EXCEPT ![t] = o.written] ELSE d

LastOf(fid, st, o, what) ==
    [fid |-> fid, status |-> st, reqs |-> o.reqs, opened |-> o.opened,
     exc |-> o.exc, outcome |-> what]

NoDownload == Outcome(0, FALSE, 0, "none")

fileFrame == <<choices, choice, items, idx, file_ids, locked, grand_downloaded,
               grand_skipped, mainRest>>

\* if not file_ids: continue
NoFileIds ==
    /\ mpc = "harvested"
    /\ file_ids = {}
    /\ EndIteration
    /\ UNCHANGED <<choices, choice, grand_downloaded, grand_skipped, uncaught, mainRest>>

\* downloaded = 0; skipped = 0; for fid in sorted(file_ids).  The items and
\* the position in them are not read again and are dropped from the state.
BeginFiles ==
    /\ mpc = "harvested"
    /\ file_ids # {}
    /\ queue' = Sorted(file_ids)
    /\ lookups' = <<>>
    /\ dir' \in InitialDirs
    /\ downloaded' = 0
    /\ skipped' = 0
    /\ items' = <<>>
    /\ idx' = 0
    /\ locked' = {}
    /\ last' = NoLast
    /\ mpc' = "files"
    /\ UNCHANGED <<choices, choice, file_ids, grand_downloaded, grand_skipped, meta,
                   uncaught, mainRest>>

\* fr = session.get(f"{base}/files/{fid}") for the next identifier
TakeFile ==
    /\ mpc = "files" /\ queue # <<>>
    /\ queue' = Tail(queue)
    /\ lookups' = Append(lookups, Head(queue))

\* fr.status_code == 403: continue
LookupLocked ==
    /\ TakeFile
    /\ last' = LastOf(Head(queue), "403", NoDownload, "locked")
    /\ UNCHANGED <<dir, downloaded, skipped, meta, uncaught, mpc, fileFrame>>

\* fr.raise_for_status() or session.get raises, outside any try
LookupRaises ==
    /\ TakeFile
    /\ \E st \in {x \in FetchStatus : Raises(x)} :
           /\ last' = LastOf(Head(queue), st, Outcome(0, FALSE, 0, ExcOf(st)),
                             "lookup_error")
           /\ uncaught' = ExcOf(st)
    /\ mpc' = "crashed"
    /\ UNCHANGED <<dir, downloaded, skipped, meta, fileFrame>>

\* the lookup succeeds: meta = fr.json()
LookupOk ==
    /\ TakeFile
    /\ meta' \in Metas
    /\ last' = LastOf(Head(queue), "200", NoDownload, "looked_up")
    /\ mpc' = "resolved"
    /\ UNCHANGED <<dir, downloaded, skipped, uncaught, fileFrame>>

\* the identifier whose metadata is in meta
CurFid == lookups[Len(lookups)]

CurTarget == TargetOf(meta, CurFid)

resolvedFrame == <<queue, lookups, fileFrame>>

\* if not url: continue
FileNoUrl ==
    /\ mpc = "resolved"
    /\ ~meta.url
    /\ last' = LastOf(CurFid, "200", NoDownload, "no_url")
    /\ meta' = NoMeta
    /\ mpc' = "files"
    /\ UNCHANGED <<dir, downloaded, skipped, uncaught, resolvedFrame>>

\* the skip rule holds: skipped += 1; continue
FileSkip ==
    /\ mpc = "resolved"
    /\ meta.url
    /\ SkipRule(dir, CurTarget, meta.size)
    /\ skipped' = skipped + 1
    /\ last' = LastOf(CurFid, "200", NoDownload, "skipped")
    /\ meta' = NoMeta
    /\ mpc' = "files"
    /\ UNCHANGED <<dir, downloaded, uncaught, resolvedFrame>>

\* download_to returns: downloaded += 1
FileDownload ==
    /\ mpc = "resolved"
    /\ meta.url
    /\ ~SkipRule(dir, CurTarget, meta.size)
    /\ \E o \in download_to :
           /\ o.exc = "none"
           /\ dir' = DirAfter(dir, CurTarget, o)
           /\ last' = LastOf(CurFid, "200", o, "downloaded")
    /\ downloaded' = downloaded + 1
    /\ meta' = NoMeta
    /\ mpc' = "files"
    /\ UNCHANGED <<skipped, uncaught, resolvedFrame>>

\* download_to raises a requests.RequestException: printed, next identifier
FileDownloadFails ==
    /\ mpc = "resolved"
    /\ meta.url
    /\ ~SkipRule(dir, CurTarget, meta.size)
    /\ \E o \in download_to :
           /\ o.exc \in RequestExceptions
           /\ dir' = DirAfter(dir, CurTarget, o)
           /\ last' = LastOf(CurFid, "200", o, "failed")
    /\ meta' = NoMeta
    /\ mpc' = "files"
    /\ UNCHANGED <<downloaded, skipped, uncaught, resolvedFrame>>

\* download_to raises anything else: the except clause does not match
FileDownloadCrashes ==
    /\ mpc = "resolved"
    /\ meta.url
    /\ ~SkipRule(dir, CurTarget, meta.size)
    /\ \E o \in download_to :
           /\ o.exc \notin RequestExceptions \cup {"none"}
           /\ dir' = DirAfter(dir, CurTarget, o)
           /\ last' = LastOf(CurFid, "200", o, "crashed")
           /\ uncaught' = o.exc
    /\ mpc' = "crashed"
    /\ UNCHANGED <<downloaded, skipped, meta, resolvedFrame>>

\* a module end that leaves the skipped files out of the grand total
ModuleDoneDropsSkipped ==
    /\ mpc = "files" /\ queue = <<>>
    /\ grand_downloaded' = grand_downloaded + downloaded
    /\ grand_skipped' = grand_skipped
    /\ EndIteration
    /\ UNCHANGED <<choices, choice, uncaught, mainRest>>

\* the file loop is over: grand_downloaded += downloaded; grand_skipped += skipped
ModuleDone ==
    /\ mpc = "files" /\ queue = <<>>
    /\ grand_downloaded' = grand_downloaded + downloaded
    /\ grand_skipped' = grand_skipped + skipped
    /\ EndIteration
    /\ UNCHANGED <<choices, choice, uncaught, mainRest>>

\* the loop over the choices is over: the summary is printed
AllDone ==
    /\ mpc = "module" /\ choices = <<>>
    /\ mpc' = "done"
    /\ UNCHANGED <<choices, choice, items, idx, file_ids, locked, queue, lookups, dir,
                   downloaded, skipped, grand_downloaded, grand_skipped, meta, last,
                   uncaught, mainRest>>

NextMain ==
    \/ ListItemsRaises \/ ModuleNoItems \/ ModuleFileItems
    \/ PageSkip \/ PageLocked \/ PageRaises \/ PageScrape
    \/ AssignSkip \/ AssignLocked \/ AssignRaises \/ AssignAttach
    \/ NoFileIds \/ BeginFiles
    \/ LookupLocked \/ LookupRaises \/ LookupOk
    \/ FileNoUrl \/ FileSkip \/ FileDownload \/ FileDownloadFails
    \/ FileDownloadCrashes
    \/ ModuleDone \/ AllDone

SpecMain == InitMain /\ [][NextMain]_vars

\* ------------------------------------------------------------ harvest claims
\* the integer content references of the File items
FileRefs(its) ==
    {its[i].content_id :
        i \in {j \in DOMAIN its : its[j].type = "File" /\ its[j].content_id # 0}}

\* the identifiers referenced by the bodies of the Page items with a slug
PageRefs(its) ==
    UNION {Referenced(PageBody(its[i].page_url)) :
              i \in {j \in DOMAIN its : its[j].type = "Page" /\ its[j].page_url # <<>>}}

\* the integer identifiers of the attachments of assignment aid
AttachmentIds(aid) ==
    {Attachments(aid)[k].id :
        k \in {n \in DOMAIN Attachments(aid) : Attachments(aid)[n].isInt}}

\* the attachment identifiers of the Assignment items with a content reference
AttachmentRefs(its) ==
    UNION {AttachmentIds(its[i].content_id) :
              i \in {j \in DOMAIN its :
                        its[j].type = "Assignment" /\ its[j].content_id # 0}}

\* a File item 501, a Page referencing 502 and 503, an Assignment with
\* attachment 504
HarvestExample ==
    <<Item("File", 501, <<>>), Item("Page", 0, <<"p", "1">>),
      Item("Assignment", 7, <<>>)>>

\* C2: when every page and assignment fetch of a module succeeded, the
\* harvested set is exactly the union of the File items' content references,
\* the identifiers scraped from the Page items' bodies and the attachment
\* identifiers of the Assignment items; other items contribute nothing, and
\* the example items yield {501, 502, 503, 504}.
C2_HarvestUnion ==
    (mpc = "harvested" /\ locked = {}) =>
        /\ file_ids = FileRefs(items) \cup PageRefs(items) \cup AttachmentRefs(items)
        /\ items = HarvestExample => file_ids = {501, 502, 503, 504}

C2_Witness ==
    /\ mpc = "harvested"
    /\ locked = {}
    /\ items = HarvestExample
    /\ file_ids = {501, 502, 503, 504}

\* ---------------------------------------------------------- file loop claims
\* the target exists, the reported size is non-zero and equals its length
AlreadySynced ==
    /\ dir[CurTarget] # -1
    /\ meta.size # 0
    /\ dir[CurTarget] = meta.size

\* no request, the directory untouched, skipped + 1, downloaded unchanged
CountedSkipped ==
    /\ last'.reqs = 0
    /\ dir' = dir
    /\ skipped' = skipped + 1
    /\ downloaded' = downloaded

\* C3 as stated: whenever the target exists and its length equals the
\* reported non-zero size, the file is not requested, is left unchanged and
\* is counted as Skipped.
C3_Original ==
    [][(mpc = "resolved" /\ AlreadySynced) => CountedSkipped]_vars

\* C3, amended: whenever the metadata has a download URL, the target exists
\* and its length equals the reported non-zero size, the file is not
\* requested, is left unchanged and is counted as Skipped.
C3_Amended ==
    [][(mpc = "resolved" /\ meta.url /\ AlreadySynced) => CountedSkipped]_vars

C3_Witness ==
    /\ mpc = "files"
    /\ last.outcome = "skipped"
    /\ last.reqs = 0
    /\ skipped = 1
    /\ downloaded = 0

\* the metadata has a download URL and the target is absent, or the reported
\* size is zero or missing, or the local length differs from it
NeedsDownload ==
    /\ meta.url
    /\ \/ dir[CurTarget] = -1
       \/ meta.size = 0
       \/ dir[CurTarget] # meta.size

\* no target other than t changes
OthersKept(t) == \A u \in Targets \ {t} : dir'[u] = dir[u]

\* C4 as stated: a file with a download URL whose target is absent or does
\* not match the reported size (zero and missing sizes included) is
\* requested and its target overwritten in place, and is never Skipped.
C4_Original ==
    [][(mpc = "resolved" /\ NeedsDownload) =>
          /\ last'.reqs >= 1
          /\ last'.opened
          /\ last'.outcome # "skipped" /\ skipped' = skipped]_vars

\* C4, amended: such a file is requested and never Skipped; when the
\* download ends without an error the target has been overwritten in place
\* and the file is counted as downloaded, and when no response passed the
\* status check the directory is as it was.
C4_Amended ==
    [][(mpc = "resolved" /\ NeedsDownload) =>
          /\ last'.reqs >= 1
          /\ last'.outcome # "skipped" /\ skipped' = skipped
          /\ OthersKept(CurTarget)
          /\ last'.exc = "none" =>
                 /\ last'.opened /\ dir'[CurTarget] # -1
                 /\ downloaded' = downloaded + 1
          /\ ~last'.opened => dir' = dir /\ downloaded' = downloaded]_vars

C4_Witness ==
    /\ mpc = "files"
    /\ last.outcome = "downloaded"
    /\ last.reqs = 2
    /\ last.opened
    /\ dir[<<"b", "_">>] = 0
    /\ downloaded = 1
    /\ skipped = 0

\* C9: a metadata lookup that returns a non-success status other than 403 is
\* confined to its file: the run is not aborted by it.
C9_LookupConfined ==
    (last.outcome = "lookup_error" /\ last.status \in {"404", "500"}) =>
        mpc # "crashed"

\* C10: an exception raised while downloading one file (an HTTP error status,
\* a network error, a local write error while streaming) is caught: the run
\* goes on with the next identifier and neither counter changes.
C10_DownloadConfined ==
    (last.reqs >= 1
         /\ last.exc \in {"HTTPError", "ConnectionError", "ChunkedEncodingError",
                          "OSError"}) =>
        /\ mpc # "crashed"
        /\ uncaught = "none"

\* ------------------------------------------------- module isolation claims
\* the run ended on an error of the listing or of a page or assignment fetch
HarvestErrors == {"list_error", "page_error", "assignment_error"}

\* C11: an error that arises while a selected module is listed or harvested
\* never prevents the selected modules after it from being processed: the
\* run does not end on such an error while selected modules are left.
C11_ModulesIsolated ==
    (mpc = "crashed" /\ last.outcome \in HarvestErrors) => choices = <<>>

\* the outcomes of a page or an assignment fetch
HarvestFetches ==
    {"page_locked", "page_scraped", "page_error",
     "assignment_locked", "assignment_read", "assignment_error"}

\* after a 403 nothing is raised; after any other non-success status the
\* error has left main
FetchPropagation ==
    last.outcome \in HarvestFetches =>
        /\ last.status = "403" => mpc # "crashed" /\ uncaught = "none"
        /\ last.status \notin {"200", "403"} =>
               mpc = "crashed" /\ uncaught = ExcOf(last.status)

\* a step that records one more item whose fetch returned 403
LockedStep == locked' # locked /\ locked' # {}

\* the identifiers are kept, none is added, and the loop goes on with the
\* next item or the next stage
LockedKeeps ==
    /\ last'.status = "403"
    /\ file_ids' = file_ids
    /\ items' = items
    /\ IF idx < Len(items) THEN idx' = idx + 1 /\ mpc' = mpc
       ELSE mpc' \in {"assignments", "harvested"}

\* C15: a 403 on a page or assignment fetch adds no identifier and raises
\* nothing, the identifiers collected so far are kept and the remaining
\* items are examined; any other non-success status propagates out of the
\* harvest.
C15_LockedSilent == []FetchPropagation /\ [][LockedStep => LockedKeeps]_vars

C15_Witness ==
    /\ mpc = "harvested"
    /\ last.outcome = "page_locked"
    /\ Len(items) = 3
    /\ locked = {2, 3}
    /\ file_ids = {501}

\* s is strictly ascending
StrictlyAscending(s) == \A i, j \in 1..Len(s) : i < j => s[i] < s[j]

\* C18: within one module the lookups are made in strictly ascending order
\* of identifier, no identifier is looked up twice, only harvested
\* identifiers are looked up, and when the file loop ends every harvested
\* identifier has been looked up.
C18_AscendingOnce ==
    /\ StrictlyAscending(lookups)
    /\ Range(lookups) \subseteq file_ids
    /\ mpc \in {"files", "resolved"} =>
           /\ Range(lookups) \cup Range(queue) = file_ids
           /\ \A a \in Range(lookups), b \in Range(queue) : a < b
    /\ (mpc = "files" /\ queue = <<>>) =>
           /\ Range(lookups) = file_ids
           /\ Len(lookups) = Cardinality(file_ids)

C18_Witness ==
    /\ mpc = "files"
    /\ queue = <<>>
    /\ lookups = <<501, 502, 503, 504>>

\* ------------------------------------------------ the scripts, start to exit
\* canvas_grabber.py, download_module_files_final.py, download_module_pdfs.py,
\* list_canvas_course_content.py and check_canvas_course.py.  The harvest and
\* the downloads of a module are the module loop above; here a module is
\* one step.
Scripts == {"canvas_grabber", "files_final", "module_pdfs", "list_content", "check_course"}

\* the scripts that download
Downloaders == {"canvas_grabber", "files_final", "module_pdfs"}

\* the selections typed at the prompt or passed as --choices / --choice:
\* those of the module loop, "a" and "3"
StartSelections == Selections \cup {<<"a">>, <<"3">>}

\* choices = parse_choices(raw_choices, len(modules)); download_module_pdfs.py
\* takes one integer and keeps it if 1 <= choice <= len(modules)
ChoicesOf(sc, sel, n) ==
    IF sc = "module_pdfs"
    THEN IF PyInt(sel).val >= 1 /\ PyInt(sel).val <= n THEN <<PyInt(sel).val>> ELSE <<>>
    ELSE parse_choices(sel, n)

\* the inputs of one run
StartInputs ==
    /\ token' \in BOOLEAN
    /\ nmod' \in 0..MaxModules
    /\ selection' \in {r \in StartSelections :
                          script' = "module_pdfs" => PyInt(r).exc = "none"}

InitStartup ==
    /\ script \in Scripts
    /\ token \in BOOLEAN
    /\ nmod \in 0..MaxModules
    /\ selection \in {r \in StartSelections :
                         script = "module_pdfs" => PyInt(r).exc = "none"}
    /\ todo = 0
    /\ listing_error = "none"
    /\ cause = "none"
    /\ exit_code = -1
    /\ prev = NoPrev
    /\ xpc = "start"
    /\ SanIdle /\ ScrIdle /\ ParIdle /\ GaIdle /\ MainIdle /\ DlIdle /\ MirIdle

startRest == <<sanVars, scrVars, parVars, gaVars, mainVars, dlVars, mirVars>>

\* sys.exit(code), or the end of main (code 0)
ExitWith(code, why) ==
    /\ exit_code' = code
    /\ cause' = why
    /\ xpc' = "exited"

\* an exception nothing catches: the interpreter prints the traceback and
\* the process ends with exit code 1
Traceback(why) == ExitWith(1, why)

\* what a failed request is called as a terminating cause
CauseOf(st) == IF st = "neterr" THEN "network_failure" ELSE "http_error"

\* if not token: sys.exit(1)
TokenMissing ==
    /\ xpc = "start" /\ ~token
    /\ ExitWith(1, "missing_credential")
    /\ UNCHANGED <<script, token, nmod, selection, todo, listing_error, prev, startRest>>

TokenGiven ==
    /\ xpc = "start" /\ token
    /\ xpc' = IF script = "canvas_grabber" THEN "courses" ELSE "course"
    /\ UNCHANGED <<script, token, nmod, selection, todo, listing_error, cause, exit_code,
                   prev, startRest>>

\* canvas_grabber.py: courses = get_all(...) returns a non-empty list
CoursesListed ==
    /\ xpc = "courses"
    /\ xpc' = "course"
    /\ UNCHANGED <<script, token, nmod, selection, todo, listing_error, cause, exit_code,
                   prev, startRest>>

\* canvas_grabber.py: if not courses: sys.exit(0)
CoursesEmpty ==
    /\ xpc = "courses"
    /\ ExitWith(0, "no_courses")
    /\ UNCHANGED <<script, token, nmod, selection, todo, listing_error, prev, startRest>>

\* canvas_grabber.py: except requests.RequestException: sys.exit(2)
CoursesFail ==
    /\ xpc = "courses"
    /\ \E st \in {"500", "neterr"} : ExitWith(2, CauseOf(st))
    /\ listing_error' = "courses"
    /\ UNCHANGED <<script, token, nmod, selection, todo, prev, startRest>>

\* the course lookup answers 200
CourseFound ==
    /\ xpc = "course"
    /\ xpc' = IF script = "check_course" THEN "end" ELSE "modules"
    /\ UNCHANGED <<script, token, nmod, selection, todo, listing_error, cause, exit_code,
                   prev, startRest>>

\* if cr.status_code == 401: sys.exit(3); if cr.status_code == 404: sys.exit(4)
CourseDenied ==
    /\ xpc = "course"
    /\ \/ ExitWith(3, "auth_401")
       \/ ExitWith(4, "not_found_404")
    /\ UNCHANGED <<script, token, nmod, selection, todo, listing_error, prev, startRest>>

\* the lookup request raises.  list_canvas_course_content.py has the request
\* and raise_for_status in one try and exits 2; check_canvas_course.py has
\* only the request in the try; the downloaders have no try.
CourseLookupCaught(sc, st) ==
    \/ sc = "list_content"
    \/ sc = "check_course" /\ st = "neterr"

CourseFails ==
    /\ xpc = "course"
    /\ \E st \in {"500", "neterr"} :
           IF CourseLookupCaught(script, st) THEN ExitWith(2, CauseOf(st))
           ELSE Traceback(CauseOf(st))
    /\ UNCHANGED <<script, token, nmod, selection, todo, listing_error, prev, startRest>>

\* modules = get_all(...) returns a non-empty list
ModulesListed ==
    /\ xpc = "modules" /\ nmod > 0
    /\ IF script = "list_content" THEN xpc' = "items" /\ todo' = nmod
       ELSE xpc' = "select" /\ todo' = 0
    /\ UNCHANGED <<script, token, nmod, selection, listing_error, cause, exit_code, prev,
                   startRest>>

\* if not modules: sys.exit(0); list_canvas_course_content.py prints "(none)"
ModulesEmpty ==
    /\ xpc = "modules" /\ nmod = 0
    /\ IF script = "list_content"
       THEN xpc' = "files" /\ UNCHANGED <<cause, exit_code>>
       ELSE ExitWith(0, "no_modules")
    /\ UNCHANGED <<script, token, nmod, selection, todo, listing_error, prev, startRest>>

\* get_all of the modules raises: uncaught in the downloaders;
\* list_canvas_course_content.py catches it and goes on with modules = []
ModulesFail ==
    /\ xpc = "modules"
    /\ listing_error' = "modules"
    /\ \E st \in {"500", "neterr"} :
           IF script = "list_content"
           THEN xpc' = "files" /\ UNCHANGED <<cause, exit_code>>
           ELSE Traceback(CauseOf(st))
    /\ UNCHANGED <<script, token, nmod, selection, todo, prev, startRest>>

\* the exit code of `if not choices`
EmptySelectionCode(sc) == IF sc = "canvas_grabber" THEN 0 ELSE 5

\* if not choices: sys.exit(...)
SelectNothing ==
    /\ xpc = "select"
    /\ ChoicesOf(script, selection, nmod) = <<>>
    /\ ExitWith(EmptySelectionCode(script), "empty_selection")
    /\ UNCHANGED <<script, token, nmod, selection, todo, listing_error, prev, startRest>>

SelectSome ==
    /\ xpc = "select"
    /\ ChoicesOf(script, selection, nmod) # <<>>
    /\ todo' = Len(ChoicesOf(script, selection, nmod))
    /\ xpc' = "items"
    /\ UNCHANGED <<script, token, nmod, selection, listing_error, cause, exit_code, prev,
                   startRest>>

\* where a script goes when no module is left
AfterModules(sc) == IF sc = "list_content" THEN "files" ELSE "end"

\* the items of the next module are listed and the module is processed
ItemsListed ==
    /\ xpc = "items" /\ todo > 0
    /\ todo' = todo - 1
    /\ xpc' = IF todo = 1 THEN AfterModules(script) ELSE "items"
    /\ UNCHANGED <<script, token, nmod, selection, listing_error, cause, exit_code, prev,
                   startRest>>

\* get_all of the items raises: uncaught in the downloaders;
\* list_canvas_course_content.py catches it and goes on with items = []
ItemsFail ==
    /\ xpc = "items" /\ todo > 0
    /\ listing_error' = "items"
    /\ \E st \in {"500", "neterr"} :
           IF script = "list_content"
           THEN /\ todo' = todo - 1
                /\ xpc' = IF todo = 1 THEN AfterModules(script) ELSE "items"
                /\ UNCHANGED <<cause, exit_code>>
           ELSE Traceback(CauseOf(st)) /\ UNCHANGED todo
    /\ UNCHANGED <<script, token, nmod, selection, prev, startRest>>

\* list_canvas_course_content.py: the folders and files are listed, or the
\* listing raises an HTTPError, which is caught
FilesListed ==
    /\ xpc = "files"
    /\ xpc' = "end"
    /\ UNCHANGED <<script, token, nmod, selection, todo, listing_error, cause, exit_code,
                   prev, startRest>>

\* list_canvas_course_content.py: the listing raises a ConnectionError, which
\* `except requests.HTTPError` does not catch
FilesFail ==
    /\ xpc = "files"
    /\ Traceback("network_failure")
    /\ UNCHANGED <<script, token, nmod, selection, todo, listing_error, prev, startRest>>

\* main returns
Finish ==
    /\ xpc = "end"
    /\ ExitWith(0, "success")
    /\ UNCHANGED <<script, token, nmod, selection, todo, listing_error, prev, startRest>>

\* the same script is run once more, with any inputs
RunAgain ==
    /\ xpc = "exited" /\ prev = NoPrev
    /\ prev' = [cause |-> cause, code |-> exit_code]
    /\ script' = script
    /\ StartInputs
    /\ todo' = 0
    /\ listing_error' = "none"
    /\ cause' = "none"
    /\ exit_code' = -1
    /\ xpc' = "start"
    /\ UNCHANGED startRest

NextStartup ==
    \/ TokenMissing \/ TokenGiven
    \/ CoursesListed \/ CoursesEmpty \/ CoursesFail
    \/ CourseFound \/ CourseDenied \/ CourseFails
    \/ ModulesListed \/ ModulesEmpty \/ ModulesFail
    \/ SelectNothing \/ SelectSome
    \/ ItemsListed \/ ItemsFail
    \/ FilesListed \/ FilesFail
    \/ Finish \/ RunAgain

SpecStartup == InitStartup /\ [][NextStartup]_vars

\* the terminating causes whose exit codes are to differ
ListedCauses ==
    {"missing_credential", "network_failure", "auth_401", "not_found_404",
     "empty_selection", "success"}

\* C12: in each script, two runs that end for different causes among missing
\* credential, network failure, course lookup 401, course lookup 404, empty
\* module selection and successful completion end with different exit codes.
C12_ExitCodesDistinct ==
    (xpc = "exited" /\ cause \in ListedCauses /\ prev.cause \in ListedCauses
         /\ cause # prev.cause) =>
        exit_code # prev.code

\* C16: in every script an error while listing courses, modules or module
\* items ends the run at once, with a non-zero exit code: no further step
\* runs after it.
C16_ListingAborts ==
    listing_error # "none" => xpc = "exited" /\ exit_code # 0

\* ------------------------------------------- download_to, one step at a time
\* a download_to that streams whatever status it gets
NoStatusCheck(st) == FALSE

\* Response.raise_for_status(): raises HTTPError for a 4xx or 5xx status
raise_for_status(st) == st # "200"

\* a file of k bytes, each b
Bytes(k, b) == [exists |-> TRUE, bytes |-> [i \in 1..k |-> b]]

\* what target_path may hold before the call: nothing, or a file of old bytes
Befores == {Absent} \cup {Bytes(k, "old") : k \in Sizes}

InitDownload ==
    /\ before \in Befores
    /\ target_file = before
    /\ resp1 = "none"
    /\ retry_after = "none"
    /\ resp2 = "none"
    /\ nreq = 0
    /\ remaining = 0
    /\ dexc = "none"
    /\ dpc = "call"
    /\ SanIdle /\ ScrIdle /\ ParIdle /\ GaIdle /\ MainIdle /\ StartIdle /\ MirIdle

\* the call ends with an exception
DlRaise(e) ==
    /\ dexc' = e
    /\ dpc' = "raised"

\* with session.get(url, stream=True, timeout=60) as resp
FirstRequest ==
    /\ dpc = "call"
    /\ nreq' = nreq + 1
    /\ \E st \in Responses :
          /\ resp1' = st
          /\ IF st = "neterr" THEN DlRaise("ConnectionError")
             ELSE dpc' = "first" /\ dexc' = dexc
    /\ UNCHANGED <<before, target_file, retry_after, resp2, remaining, dlRest>>

\* if resp.status_code == 429:
\*     time.sleep(int(resp.headers.get("Retry-After", "3"))); resp.close()
Sleep ==
    /\ dpc = "first"
    /\ resp1 = "429"
    /\ \E h \in RetryAfters :
          /\ retry_after' = h
          /\ IF h = "date" THEN DlRaise("ValueError")
             ELSE dpc' = "slept" /\ dexc' = dexc
    /\ UNCHANGED <<before, target_file, resp1, resp2, nreq, remaining, dlRest>>

\* r2 = session.get(url, stream=True, timeout=60)
SecondRequest ==
    /\ dpc = "slept"
    /\ nreq' = nreq + 1
    /\ \E st \in Responses :
          /\ resp2' = st
          /\ IF st = "neterr" THEN DlRaise("ConnectionError")
             ELSE dpc' = "second" /\ dexc' = dexc
    /\ UNCHANGED <<before, target_file, resp1, retry_after, remaining, dlRest>>

\* the response the rest of the call works on: r2 after a 429, resp otherwise
Streamed == IF resp1 = "429" THEN resp2 ELSE resp1

\* r2.raise_for_status() / resp.raise_for_status()
StatusCheck ==
    /\ \/ dpc = "first" /\ resp1 # "429"
       \/ dpc = "second"
    /\ IF raise_for_status(Streamed) THEN DlRaise("HTTPError")
       ELSE dpc' = "checked" /\ dexc' = dexc
    /\ UNCHANGED <<before, target_file, resp1, retry_after, resp2, nreq, remaining,
                   dlRest>>

\* total = int(r.headers.get("Content-Length") or 0)
ContentLength ==
    /\ dpc = "checked"
    /\ \/ dpc' = "length" /\ dexc' = dexc
       \/ DlRaise("ValueError")
    /\ UNCHANGED <<before, target_file, resp1, retry_after, resp2, nreq, remaining,
                   dlRest>>

\* with open(target_path, "wb") as fh: the file is created or truncated, or
\* the open fails and nothing is touched
OpenTarget ==
    /\ dpc = "length"
    /\ \/ /\ target_file' = Bytes(0, "new")
          /\ remaining' \in Sizes
          /\ dpc' = "stream"
          /\ dexc' = dexc
       \/ /\ DlRaise("OSError")
          /\ UNCHANGED <<target_file, remaining>>
    /\ UNCHANGED <<before, resp1, retry_after, resp2, nreq, dlRest>>

\* for chunk in r.iter_content(...): if chunk: fh.write(chunk)
WriteChunk ==
    /\ dpc = "stream"
    /\ remaining > 0
    /\ target_file' = [target_file EXCEPT !.bytes = Append(@, "new")]
    /\ remaining' = remaining - 1
    /\ UNCHANGED <<before, resp1, retry_after, resp2, nreq, dexc, dpc, dlRest>>

\* the connection breaks or a write fails before the body is complete
StreamFails ==
    /\ dpc = "stream"
    /\ remaining > 0
    /\ \E e \in {"ChunkedEncodingError", "OSError"} : DlRaise(e)
    /\ UNCHANGED <<before, target_file, resp1, retry_after, resp2, nreq, remaining,
                   dlRest>>

\* the body is exhausted: pbar.close() and the function returns
DlReturn ==
    /\ dpc = "stream"
    /\ remaining = 0
    /\ dpc' = "returned"
    /\ UNCHANGED <<before, target_file, resp1, retry_after, resp2, nreq, remaining,
                   dexc, dlRest>>

NextDownload ==
    \/ FirstRequest \/ Sleep \/ SecondRequest \/ StatusCheck \/ ContentLength
    \/ OpenTarget \/ WriteChunk \/ StreamFails \/ DlReturn

SpecDownload == InitDownload /\ [][NextDownload]_vars

DlEnded == dpc \in {"returned", "raised"}

\* C14: a first response 429 is followed, after the wait, by exactly one
\* further request, whose response is streamed or, if it is an error, makes
\* the call raise; any other first response is the only request of the call;
\* no call issues more than two requests.
C14_RetryOnce ==
    /\ nreq <= 2
    /\ DlEnded /\ resp1 # "429" => nreq = 1
    /\ DlEnded /\ resp1 = "429" =>
          /\ nreq = 2
          /\ resp2 # "200" => dpc = "raised" /\ target_file = before

ErrorStatus(st) == st \notin {"none", "200", "429", "neterr"}

\* the first response is an error other than 429, or it is 429 and the
\* second is an error status
StatusFailure ==
    \/ ErrorStatus(resp1)
    \/ resp1 = "429" /\ (ErrorStatus(resp2) \/ resp2 = "429")

\* the file at target_path changes only in the steps that follow a passed
\* status check
WrittenAfterCheck ==
    target_file' # target_file =>
        /\ dpc \in {"length", "stream"}
        /\ (IF resp1 = "429" THEN resp2 ELSE resp1) = "200"

\* a call that raises and leaves another file than it found raised while
\* streaming
TruncatedByStream ==
    dpc' = "raised" /\ target_file' # before' => dpc = "stream"

\* C20: target_path is opened for writing only after a response passed the
\* status check; when the first response is an error status other than 429,
\* or 429 followed by an error status, the call raises and the file at
\* target_path keeps its content and length; a call that raises leaves a
\* changed (truncated) file only when it failed while streaming.
C20_OpenAfterCheck ==
    /\ [](DlEnded /\ StatusFailure => dpc = "raised" /\ target_file = before)
    /\ [][WrittenAfterCheck /\ TruncatedByStream]_vars

C20_Witness ==
    /\ dpc = "raised"
    /\ resp1 = "429"
    /\ resp2 = "500"
    /\ before = Bytes(1, "old")
    /\ target_file = before

\* ------------------------------------------------- get_all: termination
\* The while loop is sequential code that keeps running: an iteration that
\* can be taken is taken.
SpecGetAllFair == SpecGetAll /\ WF_vars(NextGetAll)

\* following the "next" links from page p for at most k pages ends at a
\* response without one
RECURSIVE Reaches(_, _)
Reaches(p, k) ==
    IF p = 0 THEN TRUE
    ELSE IF k = 0 THEN FALSE
    ELSE Reaches(pages[p].next, k - 1)

ReachesEnd == Reaches(1, Len(pages))

\* the requests that were answered with a success
Fetched == IF gpc = "raised" THEN SubSeq(reqlog, 1, Len(reqlog) - 1) ELSE reqlog

\* the records of the pages fetched so far, in the order of the requests
FetchedRecords == Flatten([i \in 1..Len(Fetched) |-> RecordsOf(Fetched[i][1])])

\* the page about to be requested was requested before, at these positions
Laps == {i \in 1..Len(reqlog) : reqlog[i][1] = url}

\* get_all returns only at the end of the chain; a chain with an end makes
\* it return or raise; on a cycle every iteration that succeeds leaves
\* another page to request
TerminatesIffEnd ==
    /\ [](gpc = "returned" => ReachesEnd /\ url = 0)
    /\ ReachesEnd => <>(gpc # "loop")
    /\ [](~ReachesEnd /\ gpc = "loop" => url # 0)
    /\ [](~ReachesEnd /\ gpc # "loop" => gpc = "raised")

\* C17 as stated: get_all terminates exactly when the chain of "next" links
\* reaches a response without one or a response fails; on a cycle of
\* successful responses it never terminates and the result grows without
\* bound: every completed trip round the cycle has added records.
C17_GrowsWithoutBound ==
    /\ TerminatesIffEnd
    /\ [](gpc = "loop" /\ ~ReachesEnd =>
             \A i \in Laps : \E k \in i..Len(reqlog) : RecordsOf(reqlog[k][1]) # <<>>)

\* C17: get_all terminates exactly when the chain of "next" links reaches a
\* response without one or a response fails; on a cycle of successful
\* responses it never terminates, and the result is the records of every
\* page fetched, in order: each trip round the cycle appends the records of
\* its pages, which may be none.
C17_Amended ==
    /\ TerminatesIffEnd
    /\ [](results = FetchedRecords)

\* the loop is still running after MaxReq requests on a cycle, and every
\* request has added a record
C17_Witness ==
    /\ gpc = "loop"
    /\ ~ReachesEnd
    /\ url # 0
    /\ Len(reqlog) = MaxReq
    /\ Laps # {}
    /\ Len(results) >= MaxReq

\* ------------------------------- main: the file loop of one module, twice
\* The same module is processed by two runs of the script: the items and the
\* file metadata do not change between them, and mod_dir is what the first
\* run left.
BodySizes == 0..MaxBody

\* GET /files/<fid> for a file of the module: 403 if locked, else this JSON
Remotes ==
    [display_name : {<<>>, <<"a">>, <<".", "a">>}, filename : {<<"b", "/">>},
     size : BodySizes, url : BOOLEAN, locked : BOOLEAN]

\* file_ids of the module, the same in both runs
Fids == {501, 502}

MirTargets == {TargetOf(r, 0) : r \in Remotes}

\* a file of mod_dir: its byte length and the identifier whose body it
\* holds, 0 for a file that was there before the first run
FileOf(n, fid) == [len |-> n, src |-> fid]

NoFile == FileOf(-1, 0)

\* target.stat().st_size for every target, -1 where target.exists() is false
Lengths(d) == [t \in DOMAIN d |-> d[t].len]

\* what a run did with an identifier: the line it printed or the way the
\* iteration ended, whether a download request was issued, the bytes written
Rep(what, n, w) == [what |-> what, requested |-> n > 0, written |-> w]

NoReports == [fid \in Fids |-> Rep("none", 0, 0)]

\* download_to with bodies of up to MaxBody bytes
MirrorOutcomes ==
    {[o EXCEPT !.written = w] : <<o, w>> \in
        {ow \in download_to \X BodySizes :
            /\ ow[1].opened \/ ow[2] = 0
            /\ ow[1].opened /\ ow[1].exc # "none" => ow[2] < MaxBody}}

InitMirror ==
    /\ remote \in [Fids -> Remotes]
    /\ mdir \in {[t \in MirTargets |-> NoFile],
                 [t \in MirTargets |-> IF t = <<"a">> THEN FileOf(1, 0) ELSE NoFile]}
    /\ run = 1
    /\ mqueue = Sorted(Fids)
    /\ report = NoReports
    /\ report1 = NoReports
    /\ snapshot = mdir
    /\ mirpc = "files"
    /\ SanIdle /\ ScrIdle /\ ParIdle /\ GaIdle /\ MainIdle /\ StartIdle /\ DlIdle

MirFid == Head(mqueue)

MirTarget == TargetOf(remote[MirFid], MirFid)

\* the iteration of `for fid in sorted(file_ids)` ends with this report
MirNext(rep) ==
    /\ mirpc = "files"
    /\ mqueue # <<>>
    /\ mqueue' = Tail(mqueue)
    /\ report' = [report EXCEPT ![MirFid] = rep]
    /\ UNCHANGED <<remote, run, report1, snapshot, mirRest>>

\* fr = session.get(...) fails, or fr.raise_for_status() raises: uncaught
MirLookupRaises ==
    /\ MirNext(Rep("lookup_error", 0, 0))
    /\ mirpc' = "crashed"
    /\ UNCHANGED mdir

\* if fr.status_code == 403: continue
MirLocked ==
    /\ MirNext(Rep("locked", 0, 0))
    /\ remote[MirFid].locked
    /\ UNCHANGED <<mdir, mirpc>>

\* if not url: continue
MirNoUrl ==
    /\ MirNext(Rep("no_url", 0, 0))
    /\ ~remote[MirFid].locked
    /\ ~remote[MirFid].url
    /\ UNCHANGED <<mdir, mirpc>>

MirResolved == mqueue # <<>> /\ ~remote[MirFid].locked /\ remote[MirFid].url

\* if target.exists() and size and target.stat().st_size == size: skipped += 1
MirSkip ==
    /\ MirNext(Rep("Skipped", 0, 0))
    /\ MirResolved
    /\ SkipRule(Lengths(mdir), MirTarget, remote[MirFid].size)
    /\ UNCHANGED <<mdir, mirpc>>

\* try: download_to(session, url, target) ... and what follows it
MirDownload ==
    /\ MirResolved
    /\ ~SkipRule(Lengths(mdir), MirTarget, remote[MirFid].size)
    /\ \E o \in MirrorOutcomes :
          /\ MirNext(Rep(IF o.exc = "none" THEN "downloaded"
                         ELSE IF o.exc \in RequestExceptions THEN "failed"
                         ELSE "crashed",
                         o.reqs, o.written))
          /\ mdir' = IF o.opened
                     THEN [mdir EXCEPT ![MirTarget] = FileOf(o.written, MirFid)]
                     ELSE mdir
          /\ mirpc' = IF o.exc = "none" \/ o.exc \in RequestExceptions
                      THEN mirpc ELSE "crashed"

\* the first run is over and the script is started again
MirRunAgain ==
    /\ mirpc = "files"
    /\ mqueue = <<>>
    /\ run = 1
    /\ run' = 2
    /\ report1' = report
    /\ snapshot' = mdir
    /\ report' = NoReports
    /\ mqueue' = Sorted(Fids)
    /\ UNCHANGED <<remote, mdir, mirpc, mirRest>>

\* the second run has processed every identifier
MirDone == mirpc = "files" /\ mqueue = <<>> /\ run = 2

NextMirror ==
    \/ MirLookupRaises \/ MirLocked \/ MirNoUrl \/ MirSkip \/ MirDownload
    \/ MirRunAgain

SpecMirror == InitMirror /\ [][NextMirror]_vars

\* every identifier was downloaded in full or Skipped by the first run
Run1Clean ==
    \A fid \in Fids :
        \/ report1[fid].what = "Skipped"
        \/ report1[fid].what = "downloaded" /\ report1[fid].written = remote[fid].size

NonZeroSizes == \A fid \in Fids : remote[fid].size # 0

\* C13: after a first run in which every download succeeded, a second run
\* over the same module with unchanged items and metadata of non-zero sizes
\* (and no metadata lookup failing) issues no download request, reports
\* every file as Skipped and leaves mod_dir byte for byte as the first run
\* left it.
C13_Idempotent ==
    run = 2 /\ mirpc = "files" /\ Run1Clean /\ NonZeroSizes =>
        /\ mdir = snapshot
        /\ \A fid \in Fids :
              /\ ~report[fid].requested
              /\ report[fid].what \in {"none", "Skipped"}
              /\ MirDone => report[fid].what = "Skipped"

\* the identifier about to be processed resolves to the target of a lower
\* identifier that this run downloaded
Collides(lo) ==
    /\ mirpc = "files"
    /\ mqueue # <<>>
    /\ lo < MirFid
    /\ ~remote[lo].locked
    /\ ~remote[MirFid].locked
    /\ sanitize(NameOf(remote[lo], lo)) = sanitize(NameOf(remote[MirFid], MirFid))
    /\ report[lo].what = "downloaded"
    /\ report'[MirFid].what \notin {"none", "lookup_error"}

\* the reported non-zero size equals the byte length left at the path
SameLength == LET sz == remote[MirFid].size
              IN  sz # 0 /\ mdir[MirTarget].len = sz

SkippedUntouched ==
    /\ report'[MirFid].what = "Skipped"
    /\ ~report'[MirFid].requested
    /\ mdir' = mdir

Overwritten(lo) ==
    /\ report'[MirFid].what = "downloaded"
    /\ report'[lo].what = "downloaded"
    /\ mdir'[MirTarget].src = MirFid

OneFile == \A t \in DOMAIN mdir : t # MirTarget => mdir'[t] = mdir[t]

\* C19 as stated: the higher of two identifiers with one target either
\* overwrites the file written for the lower one, both counted as
\* downloaded, or is Skipped without a transfer when its non-zero size
\* equals the length left there; mod_dir holds one file for the two.
C19_OverwriteOrSkip ==
    [][\A lo \in Fids : Collides(lo) =>
          /\ IF SameLength THEN SkippedUntouched ELSE Overwritten(lo)
          /\ OneFile]_vars

\* C19: the higher of two identifiers with one target, when it has a
\* download URL, is Skipped without a transfer if its non-zero size equals
\* the length left there; otherwise a download request is issued, and when
\* the download ends without an error it overwrites the file written for the
\* lower one and both are counted as downloaded; mod_dir holds one file for
\* the two.
C19_Amended ==
    [][\A lo \in Fids : Collides(lo) /\ remote[MirFid].url =>
          /\ IF SameLength THEN SkippedUntouched
             ELSE /\ report'[MirFid].requested
                  /\ report'[MirFid].what \in {"downloaded", "failed", "crashed"}
                  /\ report'[MirFid].what = "downloaded" => Overwritten(lo)
                  /\ report'[MirFid].what # "downloaded" =>
                        mdir'[MirTarget].src \in {lo, MirFid}
          /\ OneFile]_vars

\* 502 has overwritten the file 501 wrote at their common target
C19_Witness ==
    /\ mirpc = "files"
    /\ run = 1
    /\ mqueue = <<>>
    /\ remote[501].display_name = <<"a">>
    /\ remote[502].display_name = <<".", "a">>
    /\ report[501].what = "downloaded"
    /\ report[502].what = "downloaded"
    /\ mdir[<<"a">>] = FileOf(2, 502)

\* ------------------------------------------- C22 (Retry-After not a number)
\* the last iteration called download_to and the call ran as a call does
\* whose first response is 429 with a Retry-After that is not an integer
RetryAfterUnparsed ==
    /\ last.outcome \in {"downloaded", "failed", "crashed"}
    /\ \E o \in AfterFirst("429", "date") :
          o.reqs = last.reqs /\ o.opened = last.opened /\ o.exc = last.exc

\* C22: a first response 429 whose Retry-After is not a decimal integer
\* makes download_to raise ValueError after one request; the per-file
\* handler does not catch it, the run ends, and the identifiers and modules
\* that remain are not processed.
C22_RetryAfterEscapes ==
    /\ [](\A o \in AfterFirst("429", "date") :
              o.exc = "ValueError" /\ o.reqs = 1 /\ ~o.opened)
    /\ [](RetryAfterUnparsed => mpc = "crashed" /\ uncaught = "ValueError")
    /\ [][mpc = "crashed" => UNCHANGED mainVars]_vars

\* the run has ended by the ValueError with an identifier of the module and
\* a selected module still to process
C22_Witness ==
    /\ mpc = "crashed"
    /\ uncaught = "ValueError"
    /\ last.outcome = "crashed"
    /\ last.reqs = 1
    /\ ~last.opened
    /\ queue # <<>>
    /\ choices # <<>>

\* ---------------------------------------------------------- C21 (counters)
\* the step stays inside the file loop of one module
InFileLoop == mpc \in {"files", "resolved"} /\ mpc' \in {"files", "resolved", "crashed"}

\* the step ends the iteration of one identifier
EndsIdentifier ==
    \/ mpc = "files" /\ lookups' # lookups /\ mpc' = "files"
    \/ mpc = "resolved" /\ mpc' # "resolved"

\* a counter moves only when an identifier's iteration ends, and then one of
\* the two moves, by one
OneCounterByOne ==
    InFileLoop /\ (downloaded' # downloaded \/ skipped' # skipped) =>
        /\ EndsIdentifier
        /\ \/ downloaded' = downloaded + 1 /\ skipped' = skipped
           \/ skipped' = skipped + 1 /\ downloaded' = downloaded

\* an identifier whose lookup returned 403 or whose metadata has no url
\* moves neither counter
UncountedKept ==
    /\ mpc = "files" /\ lookups' # lookups /\ last'.status = "403" =>
          downloaded' = downloaded /\ skipped' = skipped
    /\ mpc = "resolved" /\ ~meta.url =>
          downloaded' = downloaded /\ skipped' = skipped

\* the grand totals move only at the end of a module's file loop, by the
\* counters of that module
GrandBySums ==
    /\ mpc = "files" /\ mpc' = "module" =>
          /\ grand_downloaded' = grand_downloaded + downloaded
          /\ grand_skipped' = grand_skipped + skipped
    /\ ~(mpc = "files" /\ mpc' = "module") =>
          grand_downloaded' = grand_downloaded /\ grand_skipped' = grand_skipped

\* C21: in every state of a run over several modules downloaded + skipped
\* is at most the number of identifiers looked up in the module; each
\* identifier moves at most one of the two counters, by one; a 403 lookup
\* or a missing url moves neither; the grand totals start at 0 and grow at
\* each module's end by that module's counters and at no other step, so at
\* the end of the run they are the sums over the selected modules.
C21_Counters ==
    /\ grand_downloaded = 0 /\ grand_skipped = 0
    /\ [](downloaded + skipped <= Len(lookups))
    /\ [][OneCounterByOne /\ UncountedKept /\ GrandBySums]_vars

\* the second selected module is in its file loop after a first module that
\* downloaded and skipped files; one identifier was downloaded, one skipped
\* and the last one moved neither counter
C21_Witness ==
    /\ mpc = "files"
    /\ choices = <<>>
    /\ grand_downloaded >= 1
    /\ grand_skipped >= 1
    /\ downloaded = 1
    /\ skipped = 1
    /\ Len(lookups) = 3
    /\ last.outcome \in {"locked", "no_url"}

====
